---- MODULE Spec2Model ----
(***************************************************************************)
(* The manager client adapter of lxe (package lxo, container.go): the      *)
(* calls StopContainer, StartContainer, CreateContainer, UpdateContainer,  *)
(* DeleteContainer and ExecContainer against the container manager's API,  *)
(* and the CNI network plugin (package network) as its tests describe it.  *)
(* Each adapter call submits a request to the manager,                     *)
(* receives an operation, and blocks in op.Wait() until the manager has    *)
(* completed it.  The adapter is modelled step by step at its blocking     *)
(* points; the manager is modelled by the answers it can give for a        *)
(* container in a given state, and by the other tasks that may remove or   *)
(* start a container while a call is suspended.                            *)
(***************************************************************************)
EXTENDS Integers, Sequences, FiniteSets, TLC

\* ------------------------------------------------------------------------
\* Bounds of the model
\* ------------------------------------------------------------------------
MaxRetries == 3
MaxCalls == 2
MaxNetCalls == 4
MaxIPs == 2

Ids == {"c1"}
Timeouts == {0, 5}
RetriesArgs == -1..MaxRetries

\* ------------------------------------------------------------------------
\* Errors.  An error is the sequence of the pieces of its message; the nil
\* error is the empty sequence.
\* ------------------------------------------------------------------------
NoErr == <<>>
ErrNotFound == <<"not found">>
ErrAlreadyStopped == <<"The container is already stopped">>
ErrAlreadyRunning == <<"The container is already running">>
ErrIsRunning == <<"container is running">>
ErrTransient == <<"i/o timeout">>
ErrFatal == <<"permission denied">>

\* no value yet: the call has not returned
Pending == <<"pending">>
\* no previous call
NoCall == [op |-> "none", id |-> "none", retries |-> 0, result |-> NoErr]

\* the nil operation handle, and the handles the manager gives out
NoOp == "nil"
Handles == {"op1", "op2"}

\* the other errors of the manager
ErrExists == <<"already exists">>
ErrNotRunning == <<"Container is not running">>
ErrPrecondition == <<"ETag doesn't match">>

\* no runtime conf, no CNI result, no returned value
NoConf == [none |-> TRUE]
NoResult == [none |-> TRUE]
NoValue == [none |-> TRUE]

\* fmt.Errorf("failed to stop container %v, %v", id, err)
FailedToStop(cid, err) == <<"failed to stop container ", cid, ", ">> \o err

\* ------------------------------------------------------------------------
\* The manager: the answers of l.server for a container in a given state
\* ------------------------------------------------------------------------
States == {"absent", "running", "stopped"}

\* errors of the Transient and Fatal classes: a request or an operation can
\* fail with one whatever the container's state
Failures == {ErrTransient, ErrFatal}

\* l.server.UpdateContainerState(id, req, ETag): the error returned with the
\* operation (NoErr: the request was accepted and an operation returned)
UpdateContainerState(state) ==
    (IF state = "absent" THEN {ErrNotFound} ELSE {NoErr}) \cup Failures

\* l.server.DeleteContainer(id): a running container is refused
DeleteContainerSubmit(state) ==
    (CASE state = "absent" -> {ErrNotFound}
       [] state = "running" -> {ErrIsRunning}
       [] OTHER -> {NoErr}) \cup Failures

\* op.Wait() of a stop operation: <<completion error, state afterwards>>
StopOpOutcomes(state) ==
    (CASE state = "absent" -> {<<ErrNotFound, "absent">>}
       [] state = "stopped" -> {<<ErrAlreadyStopped, "stopped">>}
       [] OTHER -> {<<NoErr, "stopped">>})
    \cup {<<e, state>> : e \in Failures}

\* op.Wait() of a start operation
StartOpOutcomes(state) ==
    (CASE state = "absent" -> {<<ErrNotFound, "absent">>}
       [] state = "running" -> {<<ErrAlreadyRunning, "running">>}
       [] OTHER -> {<<NoErr, "running">>})
    \cup {<<e, state>> : e \in Failures}

\* op.Wait() of a delete operation
DeleteOpOutcomes(state) ==
    (CASE state = "absent" -> {<<ErrNotFound, "absent">>}
       [] state = "running" -> {<<ErrIsRunning, "running">>}
       [] OTHER -> {<<NoErr, "absent">>})
    \cup {<<e, state>> : e \in Failures}

\* l.server.CreateContainer(container): an existing name is refused
CreateContainerSubmit(state) ==
    (IF state = "absent" THEN {NoErr} ELSE {ErrExists}) \cup Failures

\* op.Wait() of a create operation: the container exists, stopped
CreateOpOutcomes(state) ==
    (IF state = "absent" THEN {<<NoErr, "stopped">>} ELSE {<<ErrExists, state>>})
    \cup {<<e, state>> : e \in Failures}

\* the ETag arguments of UpdateContainer
ETags == {"", "e1"}

\* l.server.UpdateContainer(id, container, ETag): a given ETag may be stale
UpdateContainerSubmit(state, etag) ==
    (IF state = "absent" THEN {ErrNotFound} ELSE {NoErr})
    \cup (IF etag # "" /\ state # "absent" THEN {ErrPrecondition} ELSE {})
    \cup Failures

\* op.Wait() of an update operation: the container's state is not changed
UpdateOpOutcomes(state) ==
    (IF state = "absent" THEN {<<ErrNotFound, "absent">>} ELSE {<<NoErr, state>>})
    \cup {<<e, state>> : e \in Failures}

\* l.server.ExecContainer(id, containerExec, execArgs): <<operation, error>>
ExecContainerSubmit(state) ==
    (CASE state = "absent" -> {<<NoOp, ErrNotFound>>}
       [] state = "stopped" -> {<<NoOp, ErrNotRunning>>}
       [] OTHER -> {<<h, NoErr>> : h \in Handles})
    \cup {<<NoOp, e>> : e \in Failures}

\* op.Wait() of an exec operation
ExecOpOutcomes(state) ==
    (IF state = "running" THEN {<<NoErr, state>>} ELSE {<<ErrNotRunning, state>>})
    \cup {<<e, state>> : e \in Failures}

\* ------------------------------------------------------------------------
\* State
\* ------------------------------------------------------------------------
VARIABLES
    containers,   \* the manager's containers: id -> state
    pc,           \* "idle", "submit" (about to call l.server), "wait" (in op.Wait), "done"
    op,           \* the adapter method being executed
    id, timeout, retries,   \* its arguments
    i, lastErr,   \* the locals of StopContainer
    result,       \* the returned error
    requests,     \* the requests sent to the manager by this call, in order
    submitErrs,   \* the error each of them was answered with
    seenState,    \* the state of the container when each of them was sent
    waitErrs,     \* the completion error of each awaited operation, in order
    calls,        \* number of calls made
    prev,         \* the previous call: method, id, retries and returned error
    handle,       \* ExecContainer: the operation handle given by the manager
    retOp,        \* ExecContainer: the operation handle returned to the caller
    runtimeConf,  \* cniPodNetwork: the cached runtime-conf template
    addCalls,     \* the runtime confs passed to CNI ADD, in order
    delCalls,     \* the runtime confs passed to CNI DEL, in order
    netCalls,     \* number of network operations executed
    netOp,        \* the network operation last executed
    netIn,        \* its input: a netns path, a pid or a stored CNI result
    netErr,       \* its returned error
    netOut        \* its returned value

vars == <<containers, pc, op, id, timeout, retries, i, lastErr, result,
          requests, submitErrs, seenState, waitErrs, calls, prev,
          handle, retOp,
          runtimeConf, addCalls, delCalls, netCalls, netOp, netIn, netErr, netOut>>

execVars == <<handle, retOp>>
netVars == <<runtimeConf, addCalls, delCalls, netCalls, netOp, netIn, netErr, netOut>>
adapterVars == <<containers, pc, op, id, timeout, retries, i, lastErr, result,
                 requests, submitErrs, seenState, waitErrs, calls, prev,
                 handle, retOp>>

callVars == <<op, id, timeout, retries>>
history == <<requests, submitErrs, seenState, waitErrs>>

Init ==
    /\ containers \in [Ids -> States]
    /\ pc = "idle"
    /\ op = "none"
    /\ id = "none"
    /\ timeout = 0
    /\ retries = 0
    /\ i = 0
    /\ lastErr = NoErr
    /\ result = Pending
    /\ requests = <<>>
    /\ submitErrs = <<>>
    /\ seenState = <<>>
    /\ waitErrs = <<>>
    /\ calls = 0
    /\ prev = NoCall
    /\ handle = NoOp
    /\ retOp = NoOp
    /\ runtimeConf = NoConf
    /\ addCalls = <<>>
    /\ delCalls = <<>>
    /\ netCalls = 0
    /\ netOp = "none"
    /\ netIn = NoResult
    /\ netErr = NoErr
    /\ netOut = NoValue

\* ------------------------------------------------------------------------
\* StopContainer
\* ------------------------------------------------------------------------
\* (variant: one iteration too many)
LoopCond_OffByOne(n, r) == n <= r + 1

\* (variant: the body runs before the first test, as in a do-while)
LoopCond_AtLeastOnce(n, r) == n <= r \/ n = 1

\* for i := 1; i <= retries; i++
LoopCond(n, r) == n <= r

\* (variant: the last two attempts are forced)
Force_Early(n, r) == n >= r - 1

\* Force: i == retries
Force(n, r) == n = r

\* api.ContainerStatePut{Action: "stop", Timeout: timeout, Force: i == retries}
StopReq(t, n, r) == [Action |-> "stop", Timeout |-> t, Force |-> Force(n, r)]

\* api.ContainerStatePut{Action: "start", Timeout: -1}
StartReq == [Action |-> "start", Timeout |-> -1, Force |-> FALSE]

\* (variant: the comparison misses the manager's message)
IsNotFound_Never(err) == err = <<"Not Found">>

\* err.Error() == "not found"
IsNotFound(err) == err = ErrNotFound

\* (variant: "already stopped" is not recognised)
IsAlreadyStopped_Never(err) == FALSE

\* (variant: any completion error ends the call with success)
IsAlreadyStopped_AnyErr(err) == err # NoErr

\* err != nil && err.Error() == "The container is already stopped"
IsAlreadyStopped(err) == err # NoErr /\ err = ErrAlreadyStopped

\* (variant: the first error is kept)
LastErr_KeepFirst(old, err) == IF old # NoErr THEN old ELSE err

\* lastErr = err
LastErr(old, err) == err

\* (variant: every submission error is returned, "not found" included)
StopSubmitFailed_NoNotFound(cid, err) == FailedToStop(cid, err)

\* what StopContainer returns when the submission failed with err
StopSubmitFailed(cid, err) ==
    IF IsNotFound(err) THEN NoErr ELSE FailedToStop(cid, err)

\* a call begins: the previous one, if any, has returned
Begin(method, cid, t, r) ==
    /\ pc \in {"idle", "done"}
    /\ calls < MaxCalls
    /\ calls' = calls + 1
    /\ prev' = IF pc = "done"
               THEN [op |-> op, id |-> id, retries |-> retries, result |-> result]
               ELSE NoCall
    /\ op' = method
    /\ id' = cid
    /\ timeout' = t
    /\ retries' = r
    /\ requests' = <<>>
    /\ submitErrs' = <<>>
    /\ seenState' = <<>>
    /\ waitErrs' = <<>>
    /\ handle' = NoOp
    /\ retOp' = NoOp
    /\ UNCHANGED netVars

\* entry of StopContainer up to the first test of the loop
StopContainer(cid, t, r) ==
    /\ Begin("StopContainer", cid, t, r)
    /\ i' = 1
    /\ lastErr' = NoErr
    /\ IF LoopCond(1, r)
       THEN pc' = "submit" /\ result' = Pending
       ELSE pc' = "done" /\ result' = lastErr'
    /\ UNCHANGED containers

\* (variant: only the other errors return; "not found" falls through to the wait)
StopSubmit_WaitsOnNotFound ==
    /\ pc = "submit"
    /\ op = "StopContainer"
    /\ requests' = Append(requests, StopReq(timeout, i, retries))
    /\ seenState' = Append(seenState, containers[id])
    /\ \E err \in UpdateContainerState(containers[id]) :
         /\ submitErrs' = Append(submitErrs, err)
         /\ IF err # NoErr /\ ~IsNotFound(err)
            THEN pc' = "done" /\ result' = StopSubmitFailed(id, err)
            ELSE pc' = "wait" /\ result' = Pending
    /\ UNCHANGED <<containers, callVars, execVars, netVars, i, lastErr, waitErrs, calls, prev>>

\* (variant: the operation is not awaited, the loop goes on at once)
StopSubmit_NoWait ==
    /\ pc = "submit"
    /\ op = "StopContainer"
    /\ requests' = Append(requests, StopReq(timeout, i, retries))
    /\ seenState' = Append(seenState, containers[id])
    /\ \E err \in UpdateContainerState(containers[id]) :
         /\ submitErrs' = Append(submitErrs, err)
         /\ IF err # NoErr
            THEN pc' = "done" /\ result' = StopSubmitFailed(id, err) /\ i' = i
            ELSE /\ i' = i + 1
                 /\ IF LoopCond(i + 1, retries)
                    THEN pc' = "submit" /\ result' = Pending
                    ELSE pc' = "done" /\ result' = lastErr
    /\ UNCHANGED <<containers, callVars, execVars, netVars, lastErr, waitErrs, calls, prev>>

\* one attempt's l.server.UpdateContainerState and the handling of its error
StopSubmit ==
    /\ pc = "submit"
    /\ op = "StopContainer"
    /\ requests' = Append(requests, StopReq(timeout, i, retries))
    /\ seenState' = Append(seenState, containers[id])
    /\ \E err \in UpdateContainerState(containers[id]) :
         /\ submitErrs' = Append(submitErrs, err)
         /\ IF err # NoErr
            THEN pc' = "done" /\ result' = StopSubmitFailed(id, err)
            ELSE pc' = "wait" /\ result' = Pending
    /\ UNCHANGED <<containers, callVars, execVars, netVars, i, lastErr, waitErrs, calls, prev>>

\* (variant: an operation that completes without error ends the call)
StopWait_ReturnOnSuccess ==
    /\ pc = "wait"
    /\ op = "StopContainer"
    /\ \E out \in StopOpOutcomes(containers[id]) :
         /\ containers' = [containers EXCEPT ![id] = out[2]]
         /\ waitErrs' = Append(waitErrs, out[1])
         /\ IF IsAlreadyStopped(out[1]) \/ out[1] = NoErr
            THEN /\ pc' = "done"
                 /\ result' = NoErr
                 /\ UNCHANGED <<i, lastErr>>
            ELSE /\ lastErr' = LastErr(lastErr, out[1])
                 /\ i' = i + 1
                 /\ IF LoopCond(i + 1, retries)
                    THEN pc' = "submit" /\ result' = Pending
                    ELSE pc' = "done" /\ result' = lastErr'
    /\ UNCHANGED <<callVars, execVars, netVars, requests, submitErrs, seenState, calls, prev>>

\* one attempt's op.Wait(), the handling of its error, and the loop's step
StopWait ==
    /\ pc = "wait"
    /\ op = "StopContainer"
    /\ \E out \in StopOpOutcomes(containers[id]) :
         /\ containers' = [containers EXCEPT ![id] = out[2]]
         /\ waitErrs' = Append(waitErrs, out[1])
         /\ IF IsAlreadyStopped(out[1])
            THEN /\ pc' = "done"
                 /\ result' = NoErr
                 /\ UNCHANGED <<i, lastErr>>
            ELSE /\ lastErr' = LastErr(lastErr, out[1])
                 /\ i' = i + 1
                 /\ IF LoopCond(i + 1, retries)
                    THEN pc' = "submit" /\ result' = Pending
                    ELSE pc' = "done" /\ result' = lastErr'
    /\ UNCHANGED <<callVars, execVars, netVars, requests, submitErrs, seenState, calls, prev>>

\* ------------------------------------------------------------------------
\* StartContainer
\* ------------------------------------------------------------------------
StartContainer(cid) ==
    /\ Begin("StartContainer", cid, -1, 0)
    /\ pc' = "submit"
    /\ result' = Pending
    /\ i' = 0
    /\ lastErr' = NoErr
    /\ UNCHANGED containers

StartSubmit ==
    /\ pc = "submit"
    /\ op = "StartContainer"
    /\ requests' = Append(requests, StartReq)
    /\ seenState' = Append(seenState, containers[id])
    /\ \E err \in UpdateContainerState(containers[id]) :
         /\ submitErrs' = Append(submitErrs, err)
         /\ IF err # NoErr
            THEN pc' = "done" /\ result' = err
            ELSE pc' = "wait" /\ result' = Pending
    /\ UNCHANGED <<containers, callVars, execVars, netVars, i, lastErr, waitErrs, calls, prev>>

StartWait ==
    /\ pc = "wait"
    /\ op = "StartContainer"
    /\ \E out \in StartOpOutcomes(containers[id]) :
         /\ containers' = [containers EXCEPT ![id] = out[2]]
         /\ waitErrs' = Append(waitErrs, out[1])
         /\ pc' = "done"
         /\ result' = out[1]
    /\ UNCHANGED <<callVars, execVars, netVars, i, lastErr, requests, submitErrs, seenState, calls, prev>>

\* ------------------------------------------------------------------------
\* DeleteContainer
\* ------------------------------------------------------------------------
DeleteReq == [Action |-> "delete", Timeout |-> 0, Force |-> FALSE]

DeleteContainer(cid) ==
    /\ Begin("DeleteContainer", cid, 0, 0)
    /\ pc' = "submit"
    /\ result' = Pending
    /\ i' = 0
    /\ lastErr' = NoErr
    /\ UNCHANGED containers

DeleteSubmit ==
    /\ pc = "submit"
    /\ op = "DeleteContainer"
    /\ requests' = Append(requests, DeleteReq)
    /\ seenState' = Append(seenState, containers[id])
    /\ \E err \in DeleteContainerSubmit(containers[id]) :
         /\ submitErrs' = Append(submitErrs, err)
         /\ IF err # NoErr
            THEN pc' = "done" /\ result' = err
            ELSE pc' = "wait" /\ result' = Pending
    /\ UNCHANGED <<containers, callVars, execVars, netVars, i, lastErr, waitErrs, calls, prev>>

DeleteWait ==
    /\ pc = "wait"
    /\ op = "DeleteContainer"
    /\ \E out \in DeleteOpOutcomes(containers[id]) :
         /\ containers' = [containers EXCEPT ![id] = out[2]]
         /\ waitErrs' = Append(waitErrs, out[1])
         /\ pc' = "done"
         /\ result' = out[1]
    /\ UNCHANGED <<callVars, execVars, netVars, i, lastErr, requests, submitErrs, seenState, calls, prev>>

\* ------------------------------------------------------------------------
\* CreateContainer
\* ------------------------------------------------------------------------
CreateReq(cid) == [Action |-> "create", Name |-> cid]

CreateContainer(cid) ==
    /\ Begin("CreateContainer", cid, 0, 0)
    /\ pc' = "submit"
    /\ result' = Pending
    /\ i' = 0
    /\ lastErr' = NoErr
    /\ UNCHANGED containers

CreateSubmit ==
    /\ pc = "submit"
    /\ op = "CreateContainer"
    /\ requests' = Append(requests, CreateReq(id))
    /\ seenState' = Append(seenState, containers[id])
    /\ \E err \in CreateContainerSubmit(containers[id]) :
         /\ submitErrs' = Append(submitErrs, err)
         /\ IF err # NoErr
            THEN pc' = "done" /\ result' = err
            ELSE pc' = "wait" /\ result' = Pending
    /\ UNCHANGED <<containers, callVars, execVars, netVars, i, lastErr, waitErrs, calls, prev>>

CreateWait ==
    /\ pc = "wait"
    /\ op = "CreateContainer"
    /\ \E out \in CreateOpOutcomes(containers[id]) :
         /\ containers' = [containers EXCEPT ![id] = out[2]]
         /\ waitErrs' = Append(waitErrs, out[1])
         /\ pc' = "done"
         /\ result' = out[1]
    /\ UNCHANGED <<callVars, execVars, netVars, i, lastErr, requests, submitErrs, seenState, calls, prev>>

\* ------------------------------------------------------------------------
\* UpdateContainer
\* ------------------------------------------------------------------------
UpdateReq(etag) == [Action |-> "update", ETag |-> etag]

UpdateContainer(cid) ==
    /\ Begin("UpdateContainer", cid, 0, 0)
    /\ pc' = "submit"
    /\ result' = Pending
    /\ i' = 0
    /\ lastErr' = NoErr
    /\ UNCHANGED containers

\* (variant: the call returns once the request is accepted)
UpdateSubmit_NoWait ==
    /\ pc = "submit"
    /\ op = "UpdateContainer"
    /\ \E etag \in ETags :
         /\ requests' = Append(requests, UpdateReq(etag))
         /\ \E err \in UpdateContainerSubmit(containers[id], etag) :
              /\ submitErrs' = Append(submitErrs, err)
              /\ pc' = "done"
              /\ result' = err
    /\ seenState' = Append(seenState, containers[id])
    /\ UNCHANGED <<containers, callVars, execVars, netVars, i, lastErr, waitErrs, calls, prev>>

UpdateSubmit ==
    /\ pc = "submit"
    /\ op = "UpdateContainer"
    /\ \E etag \in ETags :
         /\ requests' = Append(requests, UpdateReq(etag))
         /\ \E err \in UpdateContainerSubmit(containers[id], etag) :
              /\ submitErrs' = Append(submitErrs, err)
              /\ IF err # NoErr
                 THEN pc' = "done" /\ result' = err
                 ELSE pc' = "wait" /\ result' = Pending
    /\ seenState' = Append(seenState, containers[id])
    /\ UNCHANGED <<containers, callVars, execVars, netVars, i, lastErr, waitErrs, calls, prev>>

UpdateWait ==
    /\ pc = "wait"
    /\ op = "UpdateContainer"
    /\ \E out \in UpdateOpOutcomes(containers[id]) :
         /\ containers' = [containers EXCEPT ![id] = out[2]]
         /\ waitErrs' = Append(waitErrs, out[1])
         /\ pc' = "done"
         /\ result' = out[1]
    /\ UNCHANGED <<callVars, execVars, netVars, i, lastErr, requests, submitErrs, seenState, calls, prev>>

\* ------------------------------------------------------------------------
\* ExecContainer
\* ------------------------------------------------------------------------
ExecReq == [Action |-> "exec"]

ExecContainer(cid) ==
    /\ Begin("ExecContainer", cid, 0, 0)
    /\ pc' = "submit"
    /\ result' = Pending
    /\ i' = 0
    /\ lastErr' = NoErr
    /\ UNCHANGED containers

\* op, err := l.server.ExecContainer(...); if err != nil { return op, err }
ExecSubmit ==
    /\ pc = "submit"
    /\ op = "ExecContainer"
    /\ requests' = Append(requests, ExecReq)
    /\ seenState' = Append(seenState, containers[id])
    /\ \E ans \in ExecContainerSubmit(containers[id]) :
         /\ handle' = ans[1]
         /\ submitErrs' = Append(submitErrs, ans[2])
         /\ IF ans[2] # NoErr
            THEN pc' = "done" /\ result' = ans[2] /\ retOp' = ans[1]
            ELSE pc' = "wait" /\ result' = Pending /\ retOp' = retOp
    /\ UNCHANGED <<containers, callVars, netVars, i, lastErr, waitErrs, calls, prev>>

\* (variant: no handle is returned with a completion error)
ExecWait_NilOnError ==
    /\ pc = "wait"
    /\ op = "ExecContainer"
    /\ \E out \in ExecOpOutcomes(containers[id]) :
         /\ containers' = [containers EXCEPT ![id] = out[2]]
         /\ waitErrs' = Append(waitErrs, out[1])
         /\ pc' = "done"
         /\ result' = out[1]
         /\ retOp' = IF out[1] # NoErr THEN NoOp ELSE handle
    /\ UNCHANGED <<callVars, handle, netVars, i, lastErr, requests, submitErrs, seenState, calls, prev>>

\* err = op.Wait(); return op, err
ExecWait ==
    /\ pc = "wait"
    /\ op = "ExecContainer"
    /\ \E out \in ExecOpOutcomes(containers[id]) :
         /\ containers' = [containers EXCEPT ![id] = out[2]]
         /\ waitErrs' = Append(waitErrs, out[1])
         /\ pc' = "done"
         /\ result' = out[1]
         /\ retOp' = handle
    /\ UNCHANGED <<callVars, handle, netVars, i, lastErr, requests, submitErrs, seenState, calls, prev>>

\* ------------------------------------------------------------------------
\* Other tasks acting on the manager while this call is suspended
\* ------------------------------------------------------------------------
\* another task removes the container
OtherRemove(cid) ==
    /\ pc \in {"submit", "wait"}
    /\ containers[cid] # "absent"
    /\ containers' = [containers EXCEPT ![cid] = "absent"]
    /\ UNCHANGED <<pc, callVars, execVars, netVars, i, lastErr, result, history, calls, prev>>

\* another task starts the container
OtherStart(cid) ==
    /\ pc \in {"submit", "wait"}
    /\ containers[cid] = "stopped"
    /\ containers' = [containers EXCEPT ![cid] = "running"]
    /\ UNCHANGED <<pc, callVars, execVars, netVars, i, lastErr, result, history, calls, prev>>

\* ------------------------------------------------------------------------
\* Specification
\* ------------------------------------------------------------------------
Step ==
    \/ StopSubmit
    \/ StopWait
    \/ StartSubmit
    \/ StartWait
    \/ DeleteSubmit
    \/ DeleteWait
    \/ CreateSubmit
    \/ CreateWait
    \/ UpdateSubmit
    \/ UpdateWait
    \/ ExecSubmit
    \/ ExecWait

Next ==
    \/ \E cid \in Ids, t \in Timeouts, r \in RetriesArgs : StopContainer(cid, t, r)
    \/ \E cid \in Ids : StartContainer(cid)
    \/ \E cid \in Ids : DeleteContainer(cid)
    \/ \E cid \in Ids : CreateContainer(cid)
    \/ \E cid \in Ids : UpdateContainer(cid)
    \/ \E cid \in Ids : ExecContainer(cid)
    \/ Step
    \/ \E cid \in Ids : OtherRemove(cid)
    \/ \E cid \in Ids : OtherStart(cid)

Spec == Init /\ [][Next]_vars

\* the manager completes every operation and answers every request, and the
\* adapter's task is scheduled
FairSpec == Spec /\ WF_vars(Step)

\* ------------------------------------------------------------------------
\* The network plugin (package network): cniPlugin, cniPodNetwork and
\* cniContainerNetwork, as far as their tests and the design describe them.
\* Strings that are taken apart are sequences of their pieces; the empty
\* string is the empty sequence.
\* ------------------------------------------------------------------------
PodIds == {"foo"}
Pids == {"5", "6"}
DefaultInterface == "eth0"
ErrCNI == <<"cni failed">>
ErrMissingIP == <<"missing ip">>
ErrInvalidIP == <<"invalid CIDR address">>

\* fmt.Sprintf("/proc/%d/ns/net", pid)
NetnsPath(pid) == <<"/proc/", pid, "/ns/net">>

\* plugin.getCNIRuntimeConf(podID)
getCNIRuntimeConf(podID) ==
    [ContainerID |-> podID, NetNS |-> <<>>, IfName |-> DefaultInterface, Args |-> <<>>]

\* sequences over S of length at most n
RECURSIVE SeqsUpTo(_, _)
SeqsUpTo(S, n) ==
    IF n = 0 THEN {<<>>}
    ELSE LET shorter == SeqsUpTo(S, n - 1)
         IN shorter \cup {Append(q, x) : q \in shorter, x \in S}

\* the results of CNI ADD: current.Result with its IPConfig list
IPConfigs ==
    { [Address |-> [IP |-> "10.22.0.64", Mask |-> "16"]],
      [Address |-> [IP |-> "10.22.0.1", Mask |-> "24"]] }
AddResults == {[CNIVersion |-> "0.4.0", IPs |-> q] : q \in SeqsUpTo(IPConfigs, MaxIPs)}

\* cni.AddNetworkList: <<result, error>>
AddAnswers ==
    {<<r, NoErr>> : r \in AddResults} \cup {<<NoResult, NoErr>>, <<NoResult, ErrCNI>>}

\* cni.DelNetworkList: error
DelAnswers == {NoErr, ErrCNI}

\* the JSON of a result, as stored in the property "result"
Marshal(res) ==
    IF res = NoResult THEN [null |-> TRUE]
    ELSE [cniVersion |-> res.CNIVersion,
          ips |-> [k \in 1..Len(res.IPs) |->
                     [address |-> <<res.IPs[k].Address.IP, "/", res.IPs[k].Address.Mask>>]]]

\* the stored results given to Status: "address" strings, well formed or not,
\* and entries without an address
Addresses ==
    { <<"10.22.0.64", "/", "16">>, <<"10.22.0.1", "/", "24">>,
      <<"bar">>, <<"10.22.0.64">>, <<"10.22.0.64", "/", "33">> }
Entries == {[address |-> a] : a \in Addresses} \cup {[foo |-> <<"bar">>]}
StoredResults == {[cniVersion |-> "0.4.0", ips |-> q] : q \in SeqsUpTo(Entries, MaxIPs)}

\* net.ParseCIDR: the address has an IP, a "/" and a prefix length of at most 32
\* (ParseCIDROk)
ValidIPs == {"10.22.0.64", "10.22.0.1"}
ValidMasks == {"16", "24"}
\* (variant: the prefix length is not checked)
ParseCIDROk_AnyMask(a) == Len(a) = 3 /\ a[1] \in ValidIPs /\ a[2] = "/"

ParseCIDROk(a) == Len(a) = 3 /\ a[1] \in ValidIPs /\ a[2] = "/" /\ a[3] \in ValidMasks

\* the IP of a parsed address, as a string, without the prefix length
ParseCIDRIP(a) == a[1]

\* cniPodNetwork.ips(result): <<IPs, error>>
ips(res) ==
    LET es == IF "ips" \in DOMAIN res THEN res.ips ELSE <<>>
    IN  IF es = <<>> \/ \E k \in 1..Len(es) : "address" \notin DOMAIN es[k]
        THEN <<NoValue, ErrMissingIP>>
        ELSE IF \E k \in 1..Len(es) : ~ParseCIDROk(es[k].address)
        THEN <<NoValue, ErrInvalidIP>>
        ELSE <<[k \in 1..Len(es) |-> ParseCIDRIP(es[k].address)], NoErr>>

\* a network operation begins
NetBegin(name, input) ==
    /\ netCalls < MaxNetCalls
    /\ netCalls' = netCalls + 1
    /\ netOp' = name
    /\ netIn' = input
    /\ UNCHANGED adapterVars

\* plugin.PodNetwork(podID, nil): the pod network with its cached template
PodNetwork(podID) ==
    /\ runtimeConf = NoConf
    /\ NetBegin("PodNetwork", podID)
    /\ runtimeConf' = getCNIRuntimeConf(podID)
    /\ netErr' = NoErr
    /\ netOut' = NoValue
    /\ UNCHANGED <<addCalls, delCalls>>

\* (variant: the netns is written into the cached template)
RuntimeConfAfterSetup_Mutated(conf, netns) == [conf EXCEPT !.NetNS = netns]

\* the cached template after an action: a new conf was allocated for the action
RuntimeConfAfterSetup(conf, netns) == conf

\* cniPodNetwork.setup(ctx, netns): CNI ADD with the netns filled in
setup(netns) ==
    /\ runtimeConf # NoConf
    /\ NetBegin("setup", netns)
    /\ addCalls' = Append(addCalls, [runtimeConf EXCEPT !.NetNS = netns])
    /\ runtimeConf' = RuntimeConfAfterSetup(runtimeConf, netns)
    /\ \E ans \in AddAnswers :
         /\ netErr' = ans[2]
         /\ netOut' = IF ans[2] = NoErr THEN Marshal(ans[1]) ELSE NoValue
    /\ UNCHANGED delCalls

\* cniPodNetwork.teardown(ctx): CNI DEL with the cached template
teardown ==
    /\ runtimeConf # NoConf
    /\ NetBegin("teardown", NoValue)
    /\ delCalls' = Append(delCalls, runtimeConf)
    /\ \E err \in DelAnswers : netErr' = err
    /\ netOut' = NoValue
    /\ UNCHANGED <<runtimeConf, addCalls>>

\* (variant: a result without IPs is refused)
WhenStartedResult_NeedsIPs(res, err) ==
    IF err # NoErr THEN <<NoValue, err>>
    ELSE IF res = NoResult \/ res.IPs = <<>> THEN <<NoValue, ErrMissingIP>>
    ELSE <<[Data |-> [result |-> Marshal(res)], Nics |-> <<>>,
            NetworkConfigEntries |-> <<>>], NoErr>>

\* what WhenStarted returns for the answer of CNI ADD: the raw result is
\* stored as the property "result"
WhenStartedResult(res, err) ==
    IF err # NoErr THEN <<NoValue, err>>
    ELSE <<[Data |-> [result |-> Marshal(res)], Nics |-> <<>>,
            NetworkConfigEntries |-> <<>>], NoErr>>

\* cniContainerNetwork.WhenStarted(ctx, props): setup on /proc/<pid>/ns/net
WhenStarted(pid) ==
    /\ runtimeConf # NoConf
    /\ addCalls' = Append(addCalls, [runtimeConf EXCEPT !.NetNS = NetnsPath(pid)])
    /\ runtimeConf' = RuntimeConfAfterSetup(runtimeConf, NetnsPath(pid))
    /\ \E ans \in AddAnswers :
         /\ NetBegin("WhenStarted", [Pid |-> pid, Add |-> ans[1], AddErr |-> ans[2]])
         /\ netOut' = WhenStartedResult(ans[1], ans[2])[1]
         /\ netErr' = WhenStartedResult(ans[1], ans[2])[2]
    /\ UNCHANGED delCalls

\* cniContainerNetwork.WhenDeleted(ctx, props): teardown
WhenDeleted ==
    /\ runtimeConf # NoConf
    /\ NetBegin("WhenDeleted", NoValue)
    /\ delCalls' = Append(delCalls, runtimeConf)
    /\ \E err \in DelAnswers : netErr' = err
    /\ netOut' = NoValue
    /\ UNCHANGED <<runtimeConf, addCalls>>

\* cniPodNetwork.Status(ctx, props): the IPs of the stored result
Status(stored) ==
    /\ runtimeConf # NoConf
    /\ NetBegin("Status", stored)
    /\ netErr' = ips(stored)[2]
    /\ netOut' = IF ips(stored)[2] = NoErr THEN [IPs |-> ips(stored)[1]] ELSE NoValue
    /\ UNCHANGED <<runtimeConf, addCalls, delCalls>>

NetNext ==
    \/ \E podID \in PodIds : PodNetwork(podID)
    \/ \E pid \in Pids : setup(NetnsPath(pid))
    \/ teardown
    \/ \E pid \in Pids : WhenStarted(pid)
    \/ WhenDeleted
    \/ \E stored \in StoredResults : Status(stored)

NetSpec == Init /\ [][NetNext]_vars

\* ------------------------------------------------------------------------
\* Properties
\* ------------------------------------------------------------------------
Stopping == op = "StopContainer"
StopDone == Stopping /\ pc = "done"
Attempts == 1..Len(requests)
Awaited == 1..Len(waitErrs)

\* the call is a StopContainer that directly follows a StopContainer of the
\* same container
SecondStop ==
    /\ StopDone
    /\ prev.op = "StopContainer"
    /\ prev.id = id

\* C1 (as stated): the second of two successive StopContainer calls on the
\* same container returns success, whatever the first call returned.  It is
\* stated here for the calls with retries >= 1 whose requests were all
\* accepted by the manager, which the claim covers.
C1_SecondStopNeverFails ==
    (/\ SecondStop
     /\ retries >= 1
     /\ prev.retries >= 1
     /\ \A k \in Attempts : submitErrs[k] = NoErr)
    => result = NoErr

\* C1 (amended): the second of two successive StopContainer calls (retries
\* >= 1) returns success whenever the manager answers it as it does for an
\* absent or a stopped container: with "not found" to its first request, or
\* with "already stopped" as the completion of its first operation.
C1_SecondStopOnStoppedSucceeds ==
    (/\ SecondStop
     /\ retries >= 1
     /\ \/ submitErrs[1] = ErrNotFound
        \/ (waitErrs # <<>> /\ waitErrs[1] = ErrAlreadyStopped))
    => result = NoErr

C1_Witness ==
    /\ SecondStop
    /\ prev.retries >= 1
    /\ prev.result = NoErr
    /\ retries >= 1
    /\ waitErrs = <<ErrAlreadyStopped>>
    /\ result = NoErr

\* C2: a StopContainer call in which the manager reported "not found", to a
\* request or as the completion error of an awaited operation, returns nil.
C2_NotFoundAnywhereSucceeds ==
    (/\ StopDone
     /\ \/ \E k \in Attempts : submitErrs[k] = ErrNotFound
        \/ \E k \in Awaited : waitErrs[k] = ErrNotFound)
    => result = NoErr

\* C3: once an awaited operation of StopContainer has completed with
\* "already stopped", the call has returned success, that operation is the
\* last one awaited and its request the last one sent.
C3_AlreadyStoppedReturnsSuccess ==
    Stopping =>
      \A k \in Awaited :
        waitErrs[k] = ErrAlreadyStopped =>
          /\ pc = "done"
          /\ result = NoErr
          /\ Len(waitErrs) = k
          /\ Len(requests) = k

C3_Witness ==
    /\ StopDone
    /\ Len(waitErrs) = 2
    /\ waitErrs[1] \in Failures
    /\ waitErrs[2] = ErrAlreadyStopped
    /\ retries > 2
    /\ result = NoErr

\* C4: every request of StopContainer has action "stop" and the caller's
\* timeout, and request number k is forced iff k = retries; with retries = 1
\* and a running container the call makes exactly one, forced, attempt and
\* returns nil, the operation's completion error, or the submission's error
\* in StopContainer's wrapping.
C4_RequestsAndForce ==
    Stopping =>
      /\ \A k \in Attempts :
           /\ requests[k].Action = "stop"
           /\ requests[k].Timeout = timeout
           /\ requests[k].Force <=> (k = retries)
      /\ (pc = "done" /\ retries = 1 /\ seenState # <<>> /\ seenState[1] = "running") =>
           /\ Len(requests) = 1
           /\ requests[1].Force
           /\ \/ result = NoErr
              \/ (waitErrs # <<>> /\ result = waitErrs[1])
              \/ (submitErrs[1] # NoErr /\ result = FailedToStop(id, submitErrs[1]))

C4_Witness ==
    /\ StopDone
    /\ retries = 3
    /\ timeout = 5
    /\ Len(requests) = 3
    /\ ~requests[1].Force
    /\ ~requests[2].Force
    /\ requests[3].Force

\* C5: a StopContainer call sends at most `retries` requests and awaits at
\* most `retries` operations, sends nothing after a forced request, and,
\* when every request is answered and every operation completes, returns.
C5_AttemptsBounded ==
    /\ [](Stopping =>
            /\ (retries >= 0 => Len(requests) <= retries)
            /\ (retries < 0 => requests = <<>>)
            /\ Len(waitErrs) <= Len(requests)
            /\ \A k \in Attempts : requests[k].Force => k = Len(requests))
    /\ [](pc \in {"submit", "wait"} => <>(pc = "done"))

C5_Witness ==
    /\ StopDone
    /\ retries = 3
    /\ Len(requests) = 3
    /\ Len(waitErrs) = 3

\* C6: when all `retries` attempts of StopContainer were accepted and each
\* completed with an error other than "not found" and "already stopped",
\* the call returns the completion error of the last attempt.
C6_LastErrorSurfaced ==
    (/\ StopDone
     /\ retries >= 1
     /\ Len(waitErrs) = retries
     /\ \A k \in Attempts : submitErrs[k] = NoErr
     /\ \A k \in Awaited : waitErrs[k] \notin {NoErr, ErrNotFound, ErrAlreadyStopped})
    => result = waitErrs[retries]

C6_Witness ==
    /\ StopDone
    /\ retries = 2
    /\ waitErrs = <<ErrTransient, ErrFatal>>
    /\ result = ErrFatal

\* C7: when the container exists at one attempt of StopContainer and is gone
\* when the next request is sent, which the manager answers with "not
\* found", the call returns success with that request.
C7_VanishBetweenAttempts ==
    Stopping =>
      \A k \in Attempts :
        (/\ k >= 2
         /\ seenState[k - 1] # "absent"
         /\ seenState[k] = "absent"
         /\ Len(submitErrs) >= k
         /\ submitErrs[k] = ErrNotFound)
        => (pc = "done" /\ result = NoErr /\ Len(requests) = k)

C7_Witness ==
    /\ StopDone
    /\ seenState = <<"running", "absent">>
    /\ waitErrs = <<ErrTransient>>
    /\ submitErrs = <<NoErr, ErrNotFound>>
    /\ retries = 3
    /\ result = NoErr

\* C8: a StopContainer call whose first request finds the container absent
\* and is answered "not found" returns success having sent that one request
\* and awaited no operation.
C8_AbsentContainer ==
    (/\ Stopping
     /\ seenState # <<>>
     /\ seenState[1] = "absent"
     /\ submitErrs[1] = ErrNotFound)
    => /\ pc = "done"
       /\ result = NoErr
       /\ Len(requests) = 1
       /\ waitErrs = <<>>

C8_Witness ==
    /\ StopDone
    /\ retries = 3
    /\ seenState = <<"absent">>
    /\ submitErrs = <<ErrNotFound>>
    /\ waitErrs = <<>>
    /\ result = NoErr

\* C9: DeleteContainer of a container that does not exist in the manager,
\* which answers "not found", returns success.
C9_DeleteAbsentSucceeds ==
    (/\ op = "DeleteContainer"
     /\ pc = "done"
     /\ seenState = <<"absent">>
     /\ submitErrs = <<ErrNotFound>>)
    => result = NoErr

\* C10: StartContainer of a container that is already running, whose start
\* operation completes with "already running", returns success.
C10_StartRunningSucceeds ==
    (/\ op = "StartContainer"
     /\ pc = "done"
     /\ seenState = <<"running">>
     /\ waitErrs = <<ErrAlreadyRunning>>)
    => result = NoErr

\* C11: a transient error answered to a stop request of attempt k < retries
\* does not end StopContainer: the request of attempt k + 1 is still sent.
C11_TransientSubmitRetried ==
    Stopping =>
      \A k \in 1..Len(submitErrs) :
        (k < retries /\ submitErrs[k] = ErrTransient)
        => ~(pc = "done" /\ Len(requests) = k)

\* the operations of this call that were submitted and not yet awaited
InFlight ==
    Cardinality({k \in 1..Len(submitErrs) : submitErrs[k] = NoErr}) - Len(waitErrs)

\* C17: within a StopContainer call at most one stop operation is in flight,
\* none is when a request is about to be sent or when the call has returned:
\* every accepted operation has then been awaited, once.
C17_AttemptsSequential ==
    Stopping =>
      /\ InFlight \in {0, 1}
      /\ InFlight = 1 <=> pc = "wait"
      /\ Len(waitErrs) <= Len(requests)
      /\ pc = "submit" => Len(waitErrs) = Len(requests)

C17_Witness ==
    /\ StopDone
    /\ retries = 3
    /\ submitErrs = <<NoErr, NoErr, NoErr>>
    /\ Len(waitErrs) = 3

\* C18: a StopContainer call with retries >= 1 that returns success was
\* answered "not found" to a request, or "already stopped" by an operation,
\* or its last attempt's operation completed without error; a last attempt
\* that completed with another error is never followed by success.
C18_SuccessHasACause ==
    (StopDone /\ retries >= 1) =>
      /\ result = NoErr =>
           \/ \E k \in Attempts : submitErrs[k] = ErrNotFound
           \/ \E k \in Awaited : waitErrs[k] = ErrAlreadyStopped
           \/ (Len(waitErrs) = retries /\ waitErrs[retries] = NoErr)
      /\ (Len(waitErrs) = retries /\ waitErrs[retries] \notin {NoErr, ErrAlreadyStopped})
           => result # NoErr

C18_Witness ==
    /\ StopDone
    /\ retries = 2
    /\ waitErrs = <<ErrTransient, NoErr>>
    /\ result = NoErr

\* C19: a StopContainer call with retries <= 0 has returned success at once,
\* without a request and without a wait, whatever the container's state.
C19_NoRetriesNoRequest ==
    (Stopping /\ retries <= 0) =>
      /\ pc = "done"
      /\ result = NoErr
      /\ requests = <<>>
      /\ waitErrs = <<>>

C19_Witness ==
    /\ StopDone
    /\ retries = 0
    /\ containers[id] = "running"
    /\ requests = <<>>
    /\ result = NoErr

\* C20: an operation of StopContainer that completes without error on attempt
\* k < retries does not end the call, the request of attempt k + 1 follows;
\* the call returns before attempt `retries` only on a submission error or an
\* "already stopped" completion; and when the last attempt completes with
\* another error after an earlier success, that error is returned.
C20_SuccessDoesNotEndLoop ==
    Stopping =>
      /\ \A k \in Awaited :
           (k < retries /\ waitErrs[k] = NoErr)
           => (Len(requests) > k \/ pc = "submit")
      /\ (pc = "done" /\ Len(requests) < retries) =>
           /\ requests # <<>>
           /\ \/ submitErrs[Len(requests)] # NoErr
              \/ (Len(waitErrs) = Len(requests) /\ waitErrs[Len(waitErrs)] = ErrAlreadyStopped)
      /\ (/\ pc = "done"
          /\ retries >= 2
          /\ Len(waitErrs) = retries
          /\ \E k \in 1..(retries - 1) : waitErrs[k] = NoErr
          /\ waitErrs[retries] \notin {NoErr, ErrAlreadyStopped})
         => result = waitErrs[retries]

C20_Witness ==
    /\ StopDone
    /\ retries = 2
    /\ waitErrs = <<NoErr, ErrFatal>>
    /\ result = ErrFatal

\* C12: StartContainer, CreateContainer, UpdateContainer and DeleteContainer
\* send one request; when it is refused, its error is returned and nothing
\* is awaited; when it is accepted, the operation is awaited once and its
\* completion error is what the call returns, not before.
SimpleCall ==
    op \in {"StartContainer", "CreateContainer", "UpdateContainer", "DeleteContainer"}

C12_SubmitThenAwait ==
    SimpleCall =>
      /\ Len(requests) <= 1
      /\ Len(waitErrs) <= 1
      /\ pc # "done" => (result = Pending /\ waitErrs = <<>>)
      /\ pc = "done" =>
           /\ Len(requests) = 1
           /\ submitErrs[1] # NoErr => (result = submitErrs[1] /\ waitErrs = <<>>)
           /\ submitErrs[1] = NoErr => (Len(waitErrs) = 1 /\ result = waitErrs[1])

C12_Witness ==
    /\ op = "UpdateContainer"
    /\ pc = "done"
    /\ submitErrs = <<NoErr>>
    /\ waitErrs = <<ErrFatal>>
    /\ result = ErrFatal

\* C13: ExecContainer, once its request is accepted, returns only after the
\* exec operation has completed, with the handle the manager gave and the
\* operation's completion error; when the request is refused it returns the
\* submission's error and has awaited nothing.
C13_ExecReturnsHandleAndCompletion ==
    op = "ExecContainer" =>
      /\ pc # "done" => (result = Pending /\ retOp = NoOp /\ waitErrs = <<>>)
      /\ pc = "done" =>
           /\ Len(requests) = 1
           /\ submitErrs[1] # NoErr => (result = submitErrs[1] /\ waitErrs = <<>>)
           /\ submitErrs[1] = NoErr =>
                /\ Len(waitErrs) = 1
                /\ result = waitErrs[1]
                /\ handle \in Handles
                /\ retOp = handle

C13_Witness ==
    /\ op = "ExecContainer"
    /\ pc = "done"
    /\ handle = "op2"
    /\ retOp = "op2"
    /\ waitErrs = <<ErrTransient>>
    /\ result = ErrTransient

\* C14: the cached runtime-conf template is never changed by an action: it
\* keeps the pod's container ID, the default interface and an empty NetNS;
\* a setup with netns path P calls CNI ADD once, with the template's conf and
\* NetNS = P, and no DEL; a teardown calls CNI DEL once, with the template,
\* whose NetNS is empty also after a setup, and no ADD.
C14_TemplateNeverMutated ==
    /\ [](runtimeConf # NoConf =>
            /\ runtimeConf.NetNS = <<>>
            /\ runtimeConf.IfName = DefaultInterface
            /\ runtimeConf.ContainerID \in PodIds
            /\ \A k \in 1..Len(addCalls) :
                 /\ addCalls[k].NetNS \in {NetnsPath(pid) : pid \in Pids}
                 /\ addCalls[k].ContainerID = runtimeConf.ContainerID
                 /\ addCalls[k].IfName = runtimeConf.IfName
            /\ \A k \in 1..Len(delCalls) :
                 /\ delCalls[k].NetNS = <<>>
                 /\ delCalls[k].ContainerID = runtimeConf.ContainerID
                 /\ delCalls[k].IfName = runtimeConf.IfName)
    /\ [][(netCalls' # netCalls /\ netOp' = "setup") =>
            /\ Len(addCalls') = Len(addCalls) + 1
            /\ addCalls'[Len(addCalls')].NetNS = netIn'
            /\ delCalls' = delCalls
            /\ runtimeConf' = runtimeConf]_vars
    /\ [][(netCalls' # netCalls /\ netOp' = "teardown") =>
            /\ Len(delCalls') = Len(delCalls) + 1
            /\ delCalls'[Len(delCalls')].NetNS = <<>>
            /\ addCalls' = addCalls
            /\ runtimeConf' = runtimeConf]_vars

C14_Witness ==
    /\ netOp = "teardown"
    /\ Len(addCalls) = 1
    /\ addCalls[1].NetNS = NetnsPath("5")
    /\ addCalls[1].ContainerID = "foo"
    /\ Len(delCalls) = 1
    /\ delCalls[1].NetNS = <<>>
    /\ delCalls[1].ContainerID = "foo"
    /\ runtimeConf.NetNS = <<>>

\* CNI ADD succeeded for this WhenStarted and its result has no IPs
StartedWithoutIPs ==
    /\ netOp = "WhenStarted"
    /\ netIn.AddErr = NoErr
    /\ netIn.Add # NoResult
    /\ netIn.Add.IPs = <<>>

GoodAddresses == {<<"10.22.0.64", "/", "16">>, <<"10.22.0.1", "/", "24">>}

\* C16: Status over a stored result: an empty IP list, or an entry without
\* an address, gives an error and no status; an address that is no CIDR gives
\* an error; otherwise there is one IP per entry, in order, each the entry's
\* address without its prefix length.
C16_StatusIPs ==
    netOp = "Status" =>
      LET es == netIn.ips
          missing == es = <<>> \/ \E k \in 1..Len(es) : "address" \notin DOMAIN es[k]
          invalid == \E k \in 1..Len(es) :
                       "address" \in DOMAIN es[k] /\ es[k].address \notin GoodAddresses
      IN  /\ missing => (netErr # NoErr /\ netOut = NoValue)
          /\ invalid => (netErr # NoErr /\ netOut = NoValue)
          /\ (~missing /\ ~invalid) =>
               /\ netErr = NoErr
               /\ Len(netOut.IPs) = Len(es)
               /\ \A k \in 1..Len(es) :
                    <<netOut.IPs[k], "/">> = SubSeq(es[k].address, 1, 2)

C16_Witness ==
    /\ netOp = "Status"
    /\ netIn.ips = <<[address |-> <<"10.22.0.64", "/", "16">>],
                     [address |-> <<"10.22.0.1", "/", "24">>]>>
    /\ netErr = NoErr
    /\ netOut.IPs = <<"10.22.0.64", "10.22.0.1">>

====
